---- MODULE Spec2Model ----
(***************************************************************************)
(* Sampling-based planners: RRT (Planner/RRT/RRT.cpp) and Informed RRT*    *)
(* (Planner/InformedRRTStar/InformedRRTStar.cpp).                          *)
(*                                                                         *)
(* States are integer vectors of a 2-dimensional space, drawn from Points,  *)
(* a part of the lattice spanned by (3,4) and (-4,3).  Distances are        *)
(* compared on their squares; a distance that enters a cost must be an      *)
(* integer, and the draws that would need another one are left out.         *)
(* Random draws are nondeterministic choices.  Tree nodes are records;     *)
(* a parent pointer is the 1-based position of the parent in the node      *)
(* list, 0 being nullptr.  Arithmetic on doubles is modelled as exact     *)
(* arithmetic on these values.  Informed RRT* is solved for start # goal   *)
(* only: with start = goal the rotation matrix divides by zero.            *)
(*                                                                         *)
(* Specifications:                                                         *)
(*   Spec        both planners, whole iterations, several solve calls      *)
(*   SpecConfig  constructors and setters                                  *)
(*   SpecSteps   one Informed RRT* solve, statement by statement           *)
(*   SpecBack    the same on a planner built with a negative expand_dist   *)
(*   SpecSteer   generateSteerNode alone, in dimension 1, 2 and 3          *)
(* SpecSteps, SpecBack and SpecSteer have their own states, chosen so that *)
(* every distance entering a cost is an integer.                           *)
(***************************************************************************)
EXTENDS Integers, Sequences, FiniteSets, TLC

VARIABLES
    algo,                \* which planner object this is: "RRT" or "IRRT"
    noentry,             \* constraint_: the NOENTRY region (a closed box)
    max_sampling_num_,   \* planner fields (constructor arguments)
    expand_dist_,
    R_,
    goal_region_radius_,
    result_,             \* PlannerBase::result_
    result_cost_,        \* InformedRRTStar::result_cost_
    node_list_,          \* InformedRRTStar::node_list_ (retained tree)
    pc,                  \* "idle", "loop" (inside solve's loop), "done"
    start, goal,         \* arguments of the running / last solve
    node_list,           \* solve's local tree
    goal_node_indexes,   \* solve's local goal-region index list (IRRT)
    sampling_cnt,        \* RRT: sampling_cnt
    i,                   \* IRRT: loop variable i
    drawn,               \* number of samples drawn by the running / last solve
    ret,                 \* value returned by the last solve: "none", TRUE, FALSE
    calls,               \* number of solve calls started on this planner
    goal_sampling_rate_, \* PlannerBase::goal_sampling_rate_, in tenths
    thrown,              \* exception leaving the last constructor / setter call
    last_call,           \* the last constructor / setter call and its argument
    it_rand_node,        \* solve's local rand_node (the sampled target)
    sampler,             \* the sampling branch taken: "goal", "uniform", "informed"
    it_new_node,         \* solve's local new_node (the candidate)
    it_near_node_indexes,\* solve's local near_node_indexes
    mutations,           \* tree operations issued by the current iteration, in order
    best_last_index      \* solve's local best_last_index (1-based, -1 for none)

vars == <<algo, noentry, max_sampling_num_, expand_dist_, R_, goal_region_radius_,
          result_, result_cost_, node_list_, pc, start, goal, node_list,
          goal_node_indexes, sampling_cnt, i, drawn, ret, calls,
          goal_sampling_rate_, thrown, last_call, it_rand_node, sampler,
          it_new_node, it_near_node_indexes, mutations, best_last_index>>

\* the variables of the configuration calls and of the steps inside an iteration
cfgaux == <<goal_sampling_rate_, thrown, last_call>>
stepaux == <<it_rand_node, sampler, it_new_node, it_near_node_indexes, mutations>>

----------------------------------------------------------------------------
(* Bounds of the model *)

MaxSampling == 4     \* largest max_sampling_num_ a planner is built with
MaxSolves == 2       \* solve calls made on one planner
MaxResolve == 2      \* largest max_sampling_num_ of a planner that is solved again
MaxDraws == 4        \* cap on the samples one RRT solve may draw
SegSamples == 8      \* resolution of the constraint's segment check

(* Program constants *)

DBL_MAX == 1000000000       \* std::numeric_limits<double>::max()

----------------------------------------------------------------------------
(* State algebra (external collaborator `State`) *)

Sq(x) == x * x

\* a coordinate that is not a number, and the state made of such coordinates
NaN == 2000000000

NaNState(dim) == [k \in 1..dim |-> NaN]

IsNaN(a) == \E k \in 1..Len(a) : a[k] = NaN

\* exact square root; -1 when n is not a perfect square
RECURSIVE SqrtFrom(_, _)
SqrtFrom(n, r) == IF r * r >= n THEN (IF r * r = n THEN r ELSE -1) ELSE SqrtFrom(n, r + 1)

Sqrt(n) == SqrtFrom(n, 0)

RECURSIVE SumSq(_, _, _)
SumSq(a, b, k) == IF k = 0 THEN 0 ELSE Sq(a[k] - b[k]) + SumSq(a, b, k - 1)

\* squared Euclidean distance of the first k coordinates
D2k(a, b, k) == SumSq(a, b, k)

D2(a, b) == D2k(a, b, Len(a))

\* the distance of a and b is an integer
Exact(a, b) == Sqrt(D2(a, b)) >= 0

\* State::distanceFrom, where it is an integer
distanceFrom(a, b) == Sqrt(D2(a, b))

\* a.distanceFrom(b) < c and <= c; a distance is never below a negative c, and
\* no comparison with the distance to a NaN state holds
DistLt(a, b, c) == ~IsNaN(a) /\ ~IsNaN(b) /\ c > 0 /\ D2(a, b) < Sq(c)
DistLeq(a, b, c) == ~IsNaN(a) /\ ~IsNaN(b) /\ c >= 0 /\ D2(a, b) <= Sq(c)

\* sqrt(a2) + sqrt(b2) <= c, for c >= 0
SumLeq(a2, b2, c) ==
    /\ Sq(c) - a2 - b2 >= 0
    /\ 4 * a2 * b2 <= Sq(Sq(c) - a2 - b2)

\* the lattice point a * (3,4) + b * (-4,3); neighbours are 5 apart
P(a, b) == <<3 * a - 4 * b, 4 * a + 3 * b>>

\* the states of the model: a row of four lattice points and a column of three
\* standing on the third
Points == { P(0, 0), P(1, 0), P(2, 0), P(3, 0), P(2, 1), P(2, 2), P(2, 3) }

----------------------------------------------------------------------------
(* Constraint (external collaborator) *)

EmptyBox == [lo |-> <<1, 1>>, hi |-> <<0, 0>>]

\* the constraint objects a planner may be given
\* none; a box across the segment P(2,2)-P(2,3); a box holding P(3,0)
Obstacles == { EmptyBox,
               [lo |-> <<-5, 15>>, hi |-> <<-3, 16>>],
               [lo |-> <<8, 11>>, hi |-> <<9, 12>>] }

\* the point num/den lies in the NOENTRY box
InBox(box, num, den) ==
    \A k \in 1..Len(num) : box.lo[k] * den <= num[k] /\ num[k] <= box.hi[k] * den

\* constraint_->checkConstraintType(state) == ConstraintType::NOENTRY
IsNoEntry(box, p) == InBox(box, p, 1)

\* src * den + (dst - src) * k, the point at ratio k/den of the segment
Along(a, b, k, den) == [d \in 1..Len(a) |-> a[d] * den + (b[d] - a[d]) * k]

\* constraint_->checkCollision(a, b): TRUE when the segment is admissible
ConstraintCheckCollision(box, a, b) ==
    \A k \in 0..SegSamples : ~InBox(box, Along(a, b, k, SegSamples), SegSamples)

\* the answers the constraint may give to the NOENTRY test of a state and to the
\* segment check: for a state with a NaN coordinate a constraint without an
\* obstacle answers FREE, and one with an obstacle may answer either way
IsNoEntryAnswers(box, p) ==
    IF ~IsNaN(p) THEN {IsNoEntry(box, p)}
    ELSE IF box = EmptyBox THEN {FALSE} ELSE BOOLEAN

CheckCollisionAnswers(box, a, b) ==
    IF ~IsNaN(a) /\ ~IsNaN(b) THEN {ConstraintCheckCollision(box, a, b)}
    ELSE IF box = EmptyBox THEN {TRUE} ELSE BOOLEAN

----------------------------------------------------------------------------
(* Inputs of the model *)

Starts == { P(0, 0) }
Goals == { P(0, 0), P(3, 0), P(2, 3) }
ExpandDists == { 15 }
Rs == { 10 }
GoalRegionRadii == { 1 }

----------------------------------------------------------------------------
(* Helpers shared by both planners *)

\* walk parent links from position idx to the root, prepending each state
\* (result_.insert(result_.begin(), ...)); fuel bounds the walk
\* variant: the walk stops at the root without inserting its state
RECURSIVE PathToRoot_without_root(_, _, _, _)
PathToRoot_without_root(nl, idx, acc, fuel) ==
    IF nl[idx].parent = 0 \/ fuel = 0
    THEN acc
    ELSE PathToRoot_without_root(nl, nl[idx].parent, <<nl[idx].state>> \o acc, fuel - 1)

RECURSIVE PathToRoot(_, _, _, _)
PathToRoot(nl, idx, acc, fuel) ==
    LET acc2 == <<nl[idx].state>> \o acc
    IN  IF nl[idx].parent = 0 \/ fuel = 0
        THEN acc2
        ELSE PathToRoot(nl, nl[idx].parent, acc2, fuel - 1)

\* the axis loop of generateSteerNode; ax is the loop variable i, the running
\* dim_expand_dist is the fraction rn/rd; sin(atan2(y,x)) = y/h, cos = x/h with
\* h = sqrt(x^2 + y^2), and atan2(0,0) = 0.  The result is <<>> when the steered
\* state has a coordinate that is not an integer.  A NaN target makes every
\* angle, and with it every coordinate of the result, NaN.
RECURSIVE SteerAxes(_, _, _, _, _, _)
SteerAxes(s, src, dst, ax, rn, rd) ==
    IF s = <<>> THEN <<>>
    ELSE IF IsNaN(dst) THEN NaNState(Len(s))
    ELSE IF ax <= 0
    THEN IF rn % rd = 0 THEN [s EXCEPT ![1] = @ + (rn \div rd)] ELSE <<>>
    ELSE LET dist_delta_dim == dst[ax + 1] - src[ax + 1]
             lower2 == D2k(dst, src, ax)
             dist_lower_dim == IF ax # 1 THEN Sqrt(lower2) ELSE dst[1] - src[1]
             h == Sqrt(Sq(dist_delta_dim) + lower2)
             sn == IF h = 0 THEN 0 ELSE dist_delta_dim
             cs == IF h = 0 THEN 1 ELSE dist_lower_dim
             hd == IF h = 0 THEN 1 ELSE h
         IN  IF h < 0 \/ (ax # 1 /\ dist_lower_dim < 0) \/ (rn * sn) % (rd * hd) # 0
             THEN <<>>
             ELSE SteerAxes([s EXCEPT ![ax + 1] = @ + ((rn * sn) \div (rd * hd))],
                            src, dst, ax - 1, rn * cs, rd * hd)

----------------------------------------------------------------------------
(* RRT *)

RECURSIVE RRT_NearestScan(_, _, _, _, _)
RRT_NearestScan(target, nl, k, min_dist, min_dist_index) ==
    IF k > Len(nl) THEN min_dist_index
    ELSE LET dist == D2(nl[k].state, target)    \* squared
         IN  IF dist < min_dist
             THEN RRT_NearestScan(target, nl, k + 1, dist, k)
             ELSE RRT_NearestScan(target, nl, k + 1, min_dist, min_dist_index)

RRT_getNearestNodeIndex(target, nl) == RRT_NearestScan(target, nl, 1, DBL_MAX, 1)

\* the steered node: its parent is the source node; the dimension of the space
\* is the length of a state
RRT_generateSteerNode(nl, src_idx, dst, expand_dist) ==
    LET src == nl[src_idx].state
    IN  IF DistLt(src, dst, expand_dist)
        THEN [state |-> dst, parent |-> src_idx]
        ELSE [state |-> SteerAxes(src, src, dst, Len(src) - 1, expand_dist, 1),
              parent |-> src_idx]

\* RRT's own segment check: the states at ratio 0, 0.1, ... along the segment.
\* Ten additions of the double 0.1 give 0.9999999999999999 < 1.0, so the loop
\* body also runs for an eleventh ratio, which is the far end to within rounding.
RRT_checkCollision(box, src, dst) ==
    \A k \in 0..10 : ~InBox(box, Along(src, dst, k, 10), 10)

RRT_solve_begin ==
    /\ algo = "RRT"
    /\ pc \in {"idle", "done"}
    /\ calls < MaxSolves
    /\ calls > 0 => max_sampling_num_ <= MaxResolve
    /\ \E s \in Starts, g \in Goals :
         /\ start' = s
         /\ goal' = g
         /\ node_list' = << [state |-> s, parent |-> 0] >>
    /\ sampling_cnt' = 0
    /\ drawn' = 0
    /\ pc' = "loop"
    /\ ret' = "none"
    /\ calls' = calls + 1
    /\ UNCHANGED <<algo, noentry, max_sampling_num_, expand_dist_, R_,
                   goal_region_radius_, result_, result_cost_, node_list_,
                   goal_node_indexes, i, best_last_index>>
    /\ UNCHANGED <<cfgaux, stepaux>>

\* one pass of the while(true) loop of RRT::solve, including the return
RRT_iterate ==
    /\ algo = "RRT"
    /\ pc = "loop"
    /\ drawn < MaxDraws
    /\ \E sample_goal \in BOOLEAN, p \in Points :
        LET rand_state == IF sample_goal THEN goal ELSE p
            rejected == ~sample_goal /\ IsNoEntry(noentry, rand_state)
            nearest_node_index == RRT_getNearestNodeIndex(rand_state, node_list)
        IN  /\ sample_goal => p = goal
            /\ drawn' = drawn + 1
            /\ IF rejected
               THEN UNCHANGED <<node_list, sampling_cnt, result_, ret, pc>>
               ELSE \E new_node \in {RRT_generateSteerNode(node_list, nearest_node_index,
                                                           rand_state, expand_dist_)} :
                    LET admitted == RRT_checkCollision(noentry,
                                        node_list[nearest_node_index].state,
                                        new_node.state)
                        appended == IF admitted THEN Append(node_list, new_node)
                                    ELSE node_list
                        reached == admitted
                                   /\ DistLeq(new_node.state, goal, expand_dist_)
                        with_goal == Append(appended,
                                            [state |-> goal, parent |-> Len(appended)])
                        cnt == sampling_cnt + 1  \* uint32_t: wraps only after 2^32 passes
                    IN  /\ new_node.state \in Points
                        /\ IF reached
                           THEN /\ node_list' = with_goal
                                /\ result_' = PathToRoot(with_goal, Len(with_goal), <<>>,
                                                         Len(with_goal))
                                /\ ret' = TRUE
                                /\ pc' = "done"
                                /\ UNCHANGED sampling_cnt
                           ELSE /\ node_list' = appended
                                /\ sampling_cnt' = cnt
                                /\ IF max_sampling_num_ = cnt
                                   THEN ret' = FALSE /\ pc' = "done"
                                   ELSE UNCHANGED <<ret, pc>>
                                /\ UNCHANGED result_
    /\ UNCHANGED <<algo, noentry, max_sampling_num_, expand_dist_, R_,
                   goal_region_radius_, result_cost_, node_list_, start, goal,
                   goal_node_indexes, i, calls, best_last_index>>
    /\ UNCHANGED <<cfgaux, stepaux>>

----------------------------------------------------------------------------
(* Informed RRT* *)

RECURSIVE IRRT_NearestScan(_, _, _, _, _)
IRRT_NearestScan(target, nl, k, min_dist, min_dist_index) ==
    IF k > Len(nl) THEN min_dist_index
    ELSE LET dist == D2(nl[k].state, target)    \* squared; NaN < min_dist is false
         IN  IF ~IsNaN(nl[k].state) /\ ~IsNaN(target) /\ dist < min_dist
             THEN IRRT_NearestScan(target, nl, k + 1, dist, k)
             ELSE IRRT_NearestScan(target, nl, k + 1, min_dist, min_dist_index)

IRRT_getNearestNodeIndex(target, nl) == IRRT_NearestScan(target, nl, 1, DBL_MAX, 1)

\* variant: the steered node takes the cost of the source node as it is
IRRT_generateSteerNode_without_step_cost(nl, src_idx, dst, expand_dist) ==
    LET src == nl[src_idx].state
    IN  IF DistLt(src, dst, expand_dist)
        THEN [state |-> IF Exact(src, dst) THEN dst ELSE <<>>, parent |-> src_idx,
              cost |-> nl[src_idx].cost]
        ELSE [state |-> SteerAxes(src, src, dst, Len(src) - 1, expand_dist, 1),
              parent |-> src_idx,
              cost |-> nl[src_idx].cost]

\* variant: the cost grows by expand_dist in the short branch as well
IRRT_generateSteerNode_full_step_cost(nl, src_idx, dst, expand_dist) ==
    LET src == nl[src_idx].state
    IN  IF DistLt(src, dst, expand_dist)
        THEN [state |-> IF Exact(src, dst) THEN dst ELSE <<>>, parent |-> src_idx,
              cost |-> nl[src_idx].cost + expand_dist]
        ELSE [state |-> SteerAxes(src, src, dst, Len(src) - 1, expand_dist, 1),
              parent |-> src_idx,
              cost |-> nl[src_idx].cost + expand_dist]

\* the steered node: parent and cost come from the source node
IRRT_generateSteerNode(nl, src_idx, dst, expand_dist) ==
    LET src == nl[src_idx].state
    IN  IF DistLt(src, dst, expand_dist)
        THEN [state |-> IF Exact(src, dst) THEN dst ELSE <<>>, parent |-> src_idx,
              cost |-> nl[src_idx].cost + distanceFrom(src, dst)]
        ELSE [state |-> SteerAxes(src, src, dst, Len(src) - 1, expand_dist, 1),
              parent |-> src_idx,
              cost |-> nl[src_idx].cost + expand_dist]

\* 10000 * log(n), rounded
Log1e4(n) ==
    CASE n = 1 -> 0      [] n = 2 -> 6931   [] n = 3 -> 10986  [] n = 4 -> 13863
      [] n = 5 -> 16094  [] n = 6 -> 17918  [] n = 7 -> 19459  [] n = 8 -> 20794
      [] n = 9 -> 21972  [] n = 10 -> 23026 [] n = 11 -> 23979 [] OTHER -> 24849

\* dist < R * pow(log(num_node) / num_node, 1.0 / dim) for dim = 2, both sides
\* squared; dist2 is the squared distance
WithinRadius(dist2, R, num_node) ==
    R > 0 /\ dist2 * num_node * 10000 < Sq(R) * Log1e4(num_node)

findNearNodes(target, nl, R) ==
    IF Len(nl) = 0 THEN <<>>
    ELSE SelectSeq([k \in 1..Len(nl) |-> k],
                   LAMBDA k : /\ ~IsNaN(nl[k].state) /\ ~IsNaN(target.state)
                              /\ WithinRadius(D2(nl[k].state, target.state), R,
                                              Len(nl)))

\* variant: the scan without the segment check
RECURSIVE ChooseScan_without_collision(_, _, _, _, _, _, _)
ChooseScan_without_collision(box, target, nl, near, k, min_cost_parent_node, min_cost) ==
    IF k > Len(near) THEN <<min_cost_parent_node, min_cost>>
    ELSE LET dist == distanceFrom(target.state, nl[near[k]].state)
             cost == nl[near[k]].cost + dist
         IN  IF ~IsNaN(target.state) /\ ~IsNaN(nl[near[k]].state) /\ cost < min_cost
             THEN ChooseScan_without_collision(box, target, nl, near, k + 1, near[k], cost)
             ELSE ChooseScan_without_collision(box, target, nl, near, k + 1,
                                               min_cost_parent_node, min_cost)

RECURSIVE ChooseScan(_, _, _, _, _, _, _)
ChooseScan(box, target, nl, near, k, min_cost_parent_node, min_cost) ==
    IF k > Len(near) THEN <<min_cost_parent_node, min_cost>>
    ELSE LET dist == distanceFrom(target.state, nl[near[k]].state)
             cost == nl[near[k]].cost + dist
         IN  IF ~IsNaN(target.state) /\ ~IsNaN(nl[near[k]].state) /\ cost < min_cost
                /\ ConstraintCheckCollision(box, target.state, nl[near[k]].state)
             THEN ChooseScan(box, target, nl, near, k + 1, near[k], cost)
             ELSE ChooseScan(box, target, nl, near, k + 1, min_cost_parent_node, min_cost)

chooseParentNode(box, target, nl, near) ==
    LET r == ChooseScan(box, target, nl, near, 1, target.parent, DBL_MAX)
    IN  IF r[2] # DBL_MAX
        THEN [target EXCEPT !.parent = r[1], !.cost = r[2]]
        ELSE target

\* variant: the rewire test without the cost comparison
RewireTo_without_cost_test(box, new_node, near_node) ==
    /\ ~IsNaN(new_node.state) /\ ~IsNaN(near_node.state)
    /\ ConstraintCheckCollision(box, new_node.state, near_node.state)

\* variant: the rewire test with <= in place of <
RewireTo_not_strict(box, new_node, near_node) ==
    /\ ~IsNaN(new_node.state) /\ ~IsNaN(near_node.state)
    /\ new_node.cost + distanceFrom(near_node.state, new_node.state) <= near_node.cost
    /\ ConstraintCheckCollision(box, new_node.state, near_node.state)

\* the rewire test of one near node against the appended node; a cost through
\* a NaN distance is below no cost
RewireTo(box, new_node, near_node) ==
    /\ ~IsNaN(new_node.state) /\ ~IsNaN(near_node.state)
    /\ new_node.cost + distanceFrom(near_node.state, new_node.state) < near_node.cost
    /\ ConstraintCheckCollision(box, new_node.state, near_node.state)

RECURSIVE RewireScan(_, _, _, _)
RewireScan(box, nl, near, k) ==
    IF k > Len(near) THEN nl
    ELSE LET new_node == nl[Len(nl)]
             near_node == nl[near[k]]
             new_cost == new_node.cost + distanceFrom(near_node.state, new_node.state)
         IN  IF RewireTo(box, new_node, near_node)
             THEN RewireScan(box, [nl EXCEPT ![near[k]].parent = Len(nl),
                                             ![near[k]].cost = new_cost], near, k + 1)
             ELSE RewireScan(box, nl, near, k + 1)

\* variant: every node before the appended one is tested
rewireNearNodes_over_tree(box, nl, near) ==
    RewireScan(box, nl, [k \in 1..(Len(nl) - 1) |-> k], 1)

rewireNearNodes(box, nl, near) == RewireScan(box, nl, near, 1)

\* variant: a later node of equal cost replaces the best one
RECURSIVE BestScan_last_on_ties(_, _, _, _, _, _)
BestScan_last_on_ties(target_state, radius, nl, k, best_index, min_cost) ==
    IF k > Len(nl) THEN best_index
    ELSE IF DistLt(target_state, nl[k].state, radius) /\ nl[k].cost <= min_cost
         THEN BestScan_last_on_ties(target_state, radius, nl, k + 1, k, nl[k].cost)
         ELSE BestScan_last_on_ties(target_state, radius, nl, k + 1, best_index, min_cost)

RECURSIVE BestScan(_, _, _, _, _, _)
BestScan(target_state, radius, nl, k, best_index, min_cost) ==
    IF k > Len(nl) THEN best_index
    ELSE IF DistLt(target_state, nl[k].state, radius) /\ nl[k].cost < min_cost
         THEN BestScan(target_state, radius, nl, k + 1, k, nl[k].cost)
         ELSE BestScan(target_state, radius, nl, k + 1, best_index, min_cost)

\* the position (1-based) of the best node, -1 when there is none
getBestNodeIndex(target_state, radius, nl) ==
    BestScan(target_state, radius, nl, 1, -1, DBL_MAX)

RECURSIVE BestCostScan(_, _, _, _)
BestCostScan(nl, gidx, k, best_cost) ==
    IF k > Len(gidx) THEN best_cost
    ELSE BestCostScan(nl, gidx, k + 1,
                      IF nl[gidx[k]].cost < best_cost THEN nl[gidx[k]].cost ELSE best_cost)

\* best cost over the goal-region nodes, DBL_MAX when there is none
BestCost(nl, gidx) == BestCostScan(nl, gidx, 1, DBL_MAX)

\* sqrt(pow(best_cost, 2) - pow(min_cost, 2)) is NaN: the radicand is negative
InformedIsNaN(s, g, best_cost) == Sq(best_cost) < D2(s, g)

\* p = rotate_mat * diag * x_ball + center for some x_ball of the unit ball.
\* With v = 2p - s - g, d = g - s, c_min^2 = |d|^2 and c = best_cost, the first
\* coordinate of x_ball is (v.d) / (c_min c) and the second, up to the cosine
\* of the angle the rotation leaves free, (v x d) / (c_min sqrt(c^2 - c_min^2));
\* |x_ball| <= 1 is (|v|^2 c^2 - (v.d)^2 <= c^2 (c^2 - c_min^2)) with
\* (v.d)^2 <= c_min^2 c^2, since (v.d)^2 + (v x d)^2 = |v|^2 c_min^2.
InformedImage(p, s, g, best_cost) ==
    LET v == [k \in 1..Len(p) |-> 2 * p[k] - s[k] - g[k]]
        zero == [k \in 1..Len(p) |-> 0]
        dot == v[1] * (g[1] - s[1]) + v[2] * (g[2] - s[2])
        c2 == Sq(best_cost)
    IN  /\ ~InformedIsNaN(s, g, best_cost)
        /\ Sq(dot) <= D2(s, g) * c2
        /\ D2(v, zero) * c2 - Sq(dot) <= c2 * (c2 - D2(s, g))

\* the states the informed sampler can return
InformedSamples(s, g, best_cost) ==
    { p \in Points : InformedImage(p, s, g, best_cost) }

IRRT_solve_begin ==
    /\ algo = "IRRT"
    /\ pc \in {"idle", "done"}
    /\ calls < MaxSolves
    /\ calls > 0 => max_sampling_num_ <= MaxResolve
    /\ \E s \in Starts, g \in Goals :
         /\ s # g    \* goal.distanceFrom(start) = 0 divides by zero in the rotation
         /\ \A q \in Points : DistLt(q, g, expand_dist_) => Exact(q, g)
         /\ start' = s
         /\ goal' = g
         /\ node_list' = << [state |-> s, parent |-> 0, cost |-> 0] >>
    /\ goal_node_indexes' = <<>>
    /\ i' = 0
    /\ drawn' = 0
    /\ pc' = "loop"
    /\ ret' = "none"
    /\ calls' = calls + 1
    /\ best_last_index' = -1
    /\ UNCHANGED <<algo, noentry, max_sampling_num_, expand_dist_, R_,
                   goal_region_radius_, result_, result_cost_, node_list_,
                   sampling_cnt>>
    /\ UNCHANGED <<cfgaux, stepaux>>

\* the tree and goal-region list after admitting new_node
IRRT_admit(box, nl, gidx, new_node, g, R, goal_region_radius) ==
    LET near_node_indexes == findNearNodes(new_node, nl, R)
        chosen == chooseParentNode(box, new_node, nl, near_node_indexes)
        rewired == rewireNearNodes(box, Append(nl, chosen), near_node_indexes)
    IN  << rewired,
           IF DistLt(chosen.state, g, goal_region_radius)
           THEN Append(gidx, Len(rewired)) ELSE gidx >>

\* variant: the loop is also left once a node has entered the goal region
IRRT_loop_exit_early(k, max_sampling_num, gidx) == k >= max_sampling_num \/ gidx # <<>>

\* the for loop is left: !(i < max_sampling_num_)
IRRT_loop_exit(k, max_sampling_num, gidx) == k >= max_sampling_num

\* one pass of the for loop of InformedRRTStar::solve
IRRT_iterate ==
    /\ algo = "IRRT"
    /\ pc = "loop"
    /\ ~IRRT_loop_exit(i, max_sampling_num_, goal_node_indexes)
    /\ \E sample_goal \in BOOLEAN, p \in Points :
        LET best_cost == BestCost(node_list, goal_node_indexes)
            rand_state == IF sample_goal THEN goal ELSE p
            rejected == ~sample_goal /\ IsNoEntry(noentry, rand_state)
            nearest_node_index == IRRT_getNearestNodeIndex(rand_state, node_list)
        IN  /\ sample_goal => p = goal
            /\ (~sample_goal /\ best_cost # DBL_MAX)
                  => p \in InformedSamples(start, goal, best_cost)
            /\ IF rejected
               THEN UNCHANGED <<node_list, goal_node_indexes>>
               ELSE \E new_node \in {IRRT_generateSteerNode(node_list, nearest_node_index,
                                                            rand_state, expand_dist_)} :
                    /\ new_node.state \in Points
                    /\ \A k \in 1..Len(node_list) :
                          WithinRadius(D2(node_list[k].state, new_node.state), R_,
                                       Len(node_list))
                             => Exact(node_list[k].state, new_node.state)
                    /\ IF ConstraintCheckCollision(noentry,
                                                   node_list[nearest_node_index].state,
                                                   new_node.state)
                       THEN \E next \in {IRRT_admit(noentry, node_list, goal_node_indexes,
                                                    new_node, goal, R_,
                                                    goal_region_radius_)} :
                              node_list' = next[1] /\ goal_node_indexes' = next[2]
                       ELSE UNCHANGED <<node_list, goal_node_indexes>>
    /\ i' = i + 1
    /\ drawn' = drawn + 1
    /\ UNCHANGED <<algo, noentry, max_sampling_num_, expand_dist_, R_,
                   goal_region_radius_, result_, result_cost_, node_list_, pc,
                   start, goal, sampling_cnt, ret, calls, best_last_index>>
    /\ UNCHANGED <<cfgaux, stepaux>>

\* the code after the loop: result_.clear() up to the return
IRRT_finish ==
    /\ algo = "IRRT"
    /\ pc = "loop"
    /\ IRRT_loop_exit(i, max_sampling_num_, goal_node_indexes)
    /\ \E best \in {getBestNodeIndex(goal, expand_dist_, node_list)} :
         /\ best_last_index' = best
         /\ IF best < 0
            THEN /\ result_' = <<>>
                 /\ ret' = FALSE
                 /\ UNCHANGED <<result_cost_, node_list_>>
            ELSE /\ result_cost_' = node_list[best].cost
                                    + distanceFrom(node_list[best].state, goal)
                 /\ result_' = PathToRoot(node_list, best,
                                          IF node_list[best].state # goal
                                          THEN <<goal>> ELSE <<>>,
                                          Len(node_list))
                 /\ node_list_' = node_list
                 /\ ret' = TRUE
    /\ pc' = "done"
    /\ UNCHANGED <<algo, noentry, max_sampling_num_, expand_dist_, R_,
                   goal_region_radius_, start, goal, node_list, goal_node_indexes,
                   sampling_cnt, i, drawn, calls>>
    /\ UNCHANGED <<cfgaux, stepaux>>

----------------------------------------------------------------------------
(* Specification *)

\* a goal sampling rate strictly between 0 and 1, in tenths: both sampling
\* branches can be taken
DefaultRate == 5

\* no node, no call
NoNode == [state |-> <<>>, parent |-> 0, cost |-> 0]
NoCall == [op |-> "none", arg |-> 0, prev |-> 0]
NoSample == [state |-> <<>>, nan |-> FALSE]

Init ==
    /\ algo \in {"RRT", "IRRT"}
    /\ noentry \in Obstacles
    /\ max_sampling_num_ \in 0..MaxSampling
    /\ expand_dist_ \in ExpandDists
    /\ R_ \in Rs
    /\ goal_region_radius_ \in GoalRegionRadii
    /\ result_ = <<>>
    /\ result_cost_ = 0
    /\ node_list_ = <<>>
    /\ pc = "idle"
    /\ start = <<0, 0>>
    /\ goal = <<0, 0>>
    /\ node_list = <<>>
    /\ goal_node_indexes = <<>>
    /\ sampling_cnt = 0
    /\ i = 0
    /\ drawn = 0
    /\ ret = "none"
    /\ calls = 0
    /\ goal_sampling_rate_ = DefaultRate
    /\ thrown = "none"
    /\ last_call = NoCall
    /\ it_rand_node = NoSample
    /\ sampler = "none"
    /\ it_new_node = NoNode
    /\ it_near_node_indexes = <<>>
    /\ mutations = <<>>
    /\ best_last_index = -1

Next ==
    \/ RRT_solve_begin
    \/ RRT_iterate
    \/ IRRT_solve_begin
    \/ IRRT_iterate
    \/ IRRT_finish

Spec == Init /\ [][Next]_vars

----------------------------------------------------------------------------
(* Configuration: constructors and setters *)

\* arguments of the configuration calls; rates are in tenths
RateArgs == { -5, 0, 5, 10, 15 }
CfgMaxSampling == { 0, 1 }
CfgExpandDists == { -15, 0, 15 }
CfgRs == { 0, 10 }
CfgRadii == { 0, 1 }

\* !(0.0 <= goal_sampling_rate && goal_sampling_rate <= 1.0)
RateInvalid(rate) == ~(0 <= rate /\ rate <= 10)

\* the exception RRT::setGoalSamplingRate leaves with, "none" when it returns
RRT_setGoalSamplingRate_throws(rate) ==
    IF RateInvalid(rate) THEN "runtime_error" ELSE "none"

\* the exception InformedRRTStar::setGoalSamplingRate leaves with
IRRT_setGoalSamplingRate_throws(rate) ==
    IF RateInvalid(rate) THEN "invalid_argument" ELSE "none"

setGoalSamplingRate_throws(a, rate) ==
    IF a = "RRT" THEN RRT_setGoalSamplingRate_throws(rate)
    ELSE IRRT_setGoalSamplingRate_throws(rate)

solvevars == <<result_, result_cost_, node_list_, start, goal, node_list,
               goal_node_indexes, sampling_cnt, i, drawn, ret, calls,
               best_last_index>>

\* RRT::RRT and InformedRRTStar::InformedRRTStar: the members are initialised,
\* then the body calls setGoalSamplingRate; when that throws no planner exists
Construct ==
    /\ pc = "unbuilt"
    /\ \E m \in CfgMaxSampling, rate \in RateArgs, e \in CfgExpandDists,
          r \in CfgRs, rad \in CfgRadii :
         /\ algo = "RRT" => (r = 0 /\ rad = 0)    \* RRT has neither parameter
         /\ last_call' = [op |-> "ctor", arg |-> rate, prev |-> goal_sampling_rate_]
         /\ thrown' = setGoalSamplingRate_throws(algo, rate)
         /\ IF thrown' = "none"
            THEN /\ max_sampling_num_' = m
                 /\ expand_dist_' = e
                 /\ R_' = r
                 /\ goal_region_radius_' = rad
                 /\ goal_sampling_rate_' = rate
                 /\ pc' = "idle"
            ELSE UNCHANGED <<max_sampling_num_, expand_dist_, R_, goal_region_radius_,
                             goal_sampling_rate_, pc>>
    /\ UNCHANGED <<algo, noentry, solvevars, stepaux>>

setGoalSamplingRate ==
    /\ pc \in {"idle", "done"}
    /\ \E rate \in RateArgs :
         /\ last_call' = [op |-> "setGoalSamplingRate", arg |-> rate,
                          prev |-> goal_sampling_rate_]
         /\ thrown' = setGoalSamplingRate_throws(algo, rate)
         /\ goal_sampling_rate_' = IF thrown' = "none" THEN rate
                                   ELSE goal_sampling_rate_
    /\ UNCHANGED <<algo, noentry, max_sampling_num_, expand_dist_, R_,
                   goal_region_radius_, pc, solvevars, stepaux>>

setMaxSamplingNum ==
    /\ pc \in {"idle", "done"}
    /\ \E m \in CfgMaxSampling :
         /\ last_call' = [op |-> "setMaxSamplingNum", arg |-> m, prev |-> max_sampling_num_]
         /\ max_sampling_num_' = m
    /\ thrown' = "none"
    /\ UNCHANGED <<algo, noentry, expand_dist_, R_, goal_region_radius_,
                   goal_sampling_rate_, pc, solvevars, stepaux>>

setExpandDist ==
    /\ pc \in {"idle", "done"}
    /\ \E e \in CfgExpandDists :
         /\ last_call' = [op |-> "setExpandDist", arg |-> e, prev |-> expand_dist_]
         /\ expand_dist_' = e
    /\ thrown' = "none"
    /\ UNCHANGED <<algo, noentry, max_sampling_num_, R_, goal_region_radius_,
                   goal_sampling_rate_, pc, solvevars, stepaux>>

setR ==
    /\ algo = "IRRT"
    /\ pc \in {"idle", "done"}
    /\ \E r \in CfgRs :
         /\ last_call' = [op |-> "setR", arg |-> r, prev |-> R_]
         /\ R_' = r
    /\ thrown' = "none"
    /\ UNCHANGED <<algo, noentry, max_sampling_num_, expand_dist_, goal_region_radius_,
                   goal_sampling_rate_, pc, solvevars, stepaux>>

setGoalRegionRadius ==
    /\ algo = "IRRT"
    /\ pc \in {"idle", "done"}
    /\ \E rad \in CfgRadii :
         /\ last_call' = [op |-> "setGoalRegionRadius", arg |-> rad,
                          prev |-> goal_region_radius_]
         /\ goal_region_radius_' = rad
    /\ thrown' = "none"
    /\ UNCHANGED <<algo, noentry, max_sampling_num_, expand_dist_, R_,
                   goal_sampling_rate_, pc, solvevars, stepaux>>

InitConfig ==
    /\ algo \in {"RRT", "IRRT"}
    /\ noentry = EmptyBox
    /\ max_sampling_num_ = 0
    /\ expand_dist_ = 0
    /\ R_ = 0
    /\ goal_region_radius_ = 0
    /\ result_ = <<>>
    /\ result_cost_ = 0
    /\ node_list_ = <<>>
    /\ pc = "unbuilt"
    /\ start = <<0, 0>>
    /\ goal = <<0, 0>>
    /\ node_list = <<>>
    /\ goal_node_indexes = <<>>
    /\ sampling_cnt = 0
    /\ i = 0
    /\ drawn = 0
    /\ ret = "none"
    /\ calls = 0
    /\ goal_sampling_rate_ = 0
    /\ thrown = "none"
    /\ last_call = NoCall
    /\ it_rand_node = NoSample
    /\ sampler = "none"
    /\ it_new_node = NoNode
    /\ it_near_node_indexes = <<>>
    /\ mutations = <<>>
    /\ best_last_index = -1

\* a planner is configured and then solved; solve reads the fields as they are
NextConfig ==
    \/ Construct
    \/ setGoalSamplingRate
    \/ setMaxSamplingNum
    \/ setExpandDist
    \/ setR
    \/ setGoalRegionRadius
    \/ RRT_solve_begin
    \/ IRRT_solve_begin

SpecConfig == InitConfig /\ [][NextConfig]_vars

----------------------------------------------------------------------------
(* One Informed RRT* solve, statement by statement inside an iteration *)

MaxStepSampling == 3    \* largest max_sampling_num_ of a planner solved step by step

\* the states of this scene: every two of them are an integer distance apart
StepO == <<0, 0>>
StepA == <<12, 0>>
StepD == <<12, 5>>
StepC == <<12, 16>>
StepPoints == { StepO, StepA, StepD, StepC }

\* the constraint objects: none, and a box across the segment StepO-StepC
StepObstacles == { EmptyBox, [lo |-> <<2, 3>>, hi |-> <<4, 5>>] }

StepGoals == { StepA, StepC }
StepExpandDists == { 20 }
StepRs == { 20, 36 }     \* near radius about 12 (some nodes) and about 21 (all nodes)
StepRadii == { 1, 21 }

\* a second scene, for a planner built with a negative expand_dist: the samples
\* drawn, the states the tree may take, the goal
BackExpandDists == { -65 }
BackRs == { 100 }           \* near radius about 59 with two nodes, 60 with three
BackSamples == { <<-16, 63>>, <<-40, -96>>, <<0, -126>> }
BackStates == { <<0, 0>>, <<16, -63>>, <<72, -30>>, <<32, 0>> }
BackGoals == { <<-16, 63>> }

SceneSamples(expand_dist) == IF expand_dist > 0 THEN StepPoints ELSE BackSamples
SceneStates(expand_dist) == IF expand_dist > 0 THEN StepPoints ELSE BackStates
SceneGoals(expand_dist) == IF expand_dist > 0 THEN StepGoals ELSE BackGoals

\* a planner built with one of the given values of expand_dist and R
InitSolve(expand_dists, coefficients) ==
    /\ algo = "IRRT"
    /\ noentry \in StepObstacles
    /\ max_sampling_num_ \in 0..MaxStepSampling
    /\ expand_dist_ \in expand_dists
    /\ R_ \in coefficients
    /\ goal_region_radius_ \in StepRadii
    /\ result_ = <<>>
    /\ result_cost_ = 0
    /\ node_list_ = <<>>
    /\ pc = "idle"
    /\ start = <<0, 0>>
    /\ goal = <<0, 0>>
    /\ node_list = <<>>
    /\ goal_node_indexes = <<>>
    /\ sampling_cnt = 0
    /\ i = 0
    /\ drawn = 0
    /\ ret = "none"
    /\ calls = 0
    /\ goal_sampling_rate_ = DefaultRate
    /\ thrown = "none"
    /\ last_call = NoCall
    /\ it_rand_node = NoSample
    /\ sampler = "none"
    /\ it_new_node = NoNode
    /\ it_near_node_indexes = <<>>
    /\ mutations = <<>>
    /\ best_last_index = -1

InitSteps == InitSolve(StepExpandDists, StepRs)

InitBack == InitSolve(BackExpandDists, BackRs)

cfgvars == <<algo, noentry, max_sampling_num_, expand_dist_, R_, goal_region_radius_>>

\* solve up to the loop
IRRT_step_begin ==
    /\ pc = "idle"
    /\ start' = StepO
    /\ goal' \in SceneGoals(expand_dist_)
    /\ node_list' = << [state |-> StepO, parent |-> 0, cost |-> 0] >>
    /\ goal_node_indexes' = <<>>
    /\ i' = 0
    /\ drawn' = 0
    /\ pc' = "loop"
    /\ ret' = "none"
    /\ calls' = calls + 1
    /\ best_last_index' = -1
    /\ UNCHANGED <<cfgvars, result_, result_cost_, node_list_, sampling_cnt>>
    /\ UNCHANGED <<cfgaux, stepaux>>

\* the target the sampling statements produce for one choice of the random draws
IRRT_sample(sample_goal, p, s, g, best_cost) ==
    IF sample_goal THEN [state |-> g, nan |-> FALSE]
    ELSE IF best_cost = DBL_MAX THEN [state |-> p, nan |-> FALSE]
    ELSE IF InformedIsNaN(s, g, best_cost)
    THEN [state |-> NaNState(Len(s)), nan |-> TRUE]
    ELSE [state |-> p, nan |-> FALSE]

\* the top of the loop body up to the admission test: best_cost, the sample, the
\* NOENTRY test, the nearest node, the steered node and the segment check.  A
\* NaN sample is nearest to node 0 and is steered to a NaN state.
IRRT_step_sample ==
    /\ pc = "loop"
    /\ ~IRRT_loop_exit(i, max_sampling_num_, goal_node_indexes)
    /\ \E sample_goal \in BOOLEAN, p \in SceneSamples(expand_dist_) \cup {goal} :
        LET best_cost == BestCost(node_list, goal_node_indexes)
            rand == IRRT_sample(sample_goal, p, start, goal, best_cost)
            informed == ~sample_goal /\ best_cost # DBL_MAX
            nearest_node_index == IRRT_getNearestNodeIndex(rand.state, node_list)
        IN  /\ sample_goal => p = goal
            /\ (informed /\ ~rand.nan) => InformedImage(p, start, goal, best_cost)
            /\ it_rand_node' = rand
            /\ sampler' = IF sample_goal THEN "goal"
                          ELSE IF informed THEN "informed" ELSE "uniform"
            /\ mutations' = <<>>
            /\ it_near_node_indexes' = <<>>
            /\ drawn' = drawn + 1
            /\ \E is_noentry \in IsNoEntryAnswers(noentry, rand.state) :
               IF ~sample_goal /\ is_noentry
               THEN /\ pc' = "loop"
                    /\ i' = i + 1
                    /\ it_new_node' = NoNode
               ELSE \E steered \in {IRRT_generateSteerNode(node_list, nearest_node_index,
                                                           rand.state, expand_dist_)} :
                    /\ IsNaN(steered.state) \/ steered.state \in SceneStates(expand_dist_)
                    /\ \A k \in 1..Len(node_list) :
                         (/\ ~IsNaN(node_list[k].state) /\ ~IsNaN(steered.state)
                          /\ WithinRadius(D2(node_list[k].state, steered.state), R_,
                                          Len(node_list)))
                            => Exact(node_list[k].state, steered.state)
                    /\ \E is_free \in CheckCollisionAnswers(
                                          noentry, node_list[nearest_node_index].state,
                                          steered.state) :
                       IF is_free
                       THEN /\ pc' = "admitted"
                            /\ it_new_node' = steered
                            /\ UNCHANGED i
                       ELSE /\ pc' = "loop"
                            /\ i' = i + 1
                            /\ it_new_node' = NoNode
    /\ UNCHANGED <<cfgvars, cfgaux, result_, result_cost_, node_list_, start, goal,
                   node_list, goal_node_indexes, sampling_cnt, ret, calls,
                   best_last_index>>

\* near_node_indexes = findNearNodes(new_node, node_list)
IRRT_step_near ==
    /\ pc = "admitted"
    /\ it_near_node_indexes' = findNearNodes(it_new_node, node_list, R_)
    /\ pc' = "near"
    /\ UNCHANGED <<cfgvars, cfgaux, solvevars, it_rand_node, sampler, it_new_node,
                   mutations>>

\* new_node = chooseParentNode(new_node, node_list, near_node_indexes)
IRRT_step_choose ==
    /\ pc = "near"
    /\ it_new_node' = chooseParentNode(noentry, it_new_node, node_list,
                                       it_near_node_indexes)
    /\ mutations' = Append(mutations, "choose_parent")
    /\ pc' = "chosen"
    /\ UNCHANGED <<cfgvars, cfgaux, solvevars, it_rand_node, sampler,
                   it_near_node_indexes>>

\* node_list.push_back(new_node)
IRRT_step_append ==
    /\ pc = "chosen"
    /\ node_list' = Append(node_list, it_new_node)
    /\ mutations' = Append(mutations, "append")
    /\ pc' = "appended"
    /\ UNCHANGED <<cfgvars, cfgaux, result_, result_cost_, node_list_, start, goal,
                   goal_node_indexes, sampling_cnt, i, drawn, ret, calls,
                   best_last_index, it_rand_node, sampler, it_new_node,
                   it_near_node_indexes>>

\* variant: the neighbours are looked up again in the tree that holds the new node
IRRT_step_rewire_fresh_near ==
    /\ pc = "appended"
    /\ it_near_node_indexes' = findNearNodes(it_new_node, node_list, R_)
    /\ node_list' = rewireNearNodes(noentry, node_list, it_near_node_indexes')
    /\ mutations' = Append(mutations, "rewire")
    /\ goal_node_indexes' = IF DistLt(it_new_node.state, goal, goal_region_radius_)
                            THEN Append(goal_node_indexes, Len(node_list))
                            ELSE goal_node_indexes
    /\ i' = i + 1
    /\ pc' = "loop"
    /\ UNCHANGED <<cfgvars, cfgaux, result_, result_cost_, node_list_, start, goal,
                   sampling_cnt, drawn, ret, calls, best_last_index, it_rand_node,
                   sampler, it_new_node>>

\* rewireNearNodes(node_list, near_node_indexes), the goal-region test and i++
IRRT_step_rewire ==
    /\ pc = "appended"
    /\ node_list' = rewireNearNodes(noentry, node_list, it_near_node_indexes)
    /\ mutations' = Append(mutations, "rewire")
    /\ goal_node_indexes' = IF DistLt(it_new_node.state, goal, goal_region_radius_)
                            THEN Append(goal_node_indexes, Len(node_list))
                            ELSE goal_node_indexes
    /\ i' = i + 1
    /\ pc' = "loop"
    /\ UNCHANGED <<cfgvars, cfgaux, result_, result_cost_, node_list_, start, goal,
                   sampling_cnt, drawn, ret, calls, best_last_index, it_rand_node,
                   sampler, it_new_node, it_near_node_indexes>>

NextSteps ==
    \/ IRRT_step_begin
    \/ IRRT_step_sample
    \/ IRRT_step_near
    \/ IRRT_step_choose
    \/ IRRT_step_append
    \/ IRRT_step_rewire
    \/ IRRT_finish

SpecSteps == InitSteps /\ [][NextSteps]_vars

\* the same solve on a planner built with a negative expand_dist
SpecBack == InitBack /\ [][NextSteps]_vars

----------------------------------------------------------------------------
(* generateSteerNode on its own, in spaces of dimension 1, 2 and 3 *)

\* states of a 1-, a 2- and a 3-dimensional space
SteerStates ==
    { <<-20>>, <<0>>, <<4>>, <<20>> }
    \cup { <<-6, -8>>, <<-3, 4>>, <<0, 0>>, <<3, 4>>, <<6, 8>> }
    \cup { <<-6, -8, -24>>, <<0, 0, 0>>, <<3, 4, 12>>, <<6, 8, 24>> }

SteerExpandDists == { 5, 10, 13 }

\* a planner inside solve, about to steer from its only node to a sample.
\* InformedRRTStar::solve leaves with an exception in a space of dimension 1.
InitSteer ==
    /\ algo \in {"RRT", "IRRT"}
    /\ noentry = EmptyBox
    /\ max_sampling_num_ = 1
    /\ expand_dist_ \in SteerExpandDists
    /\ R_ = 0
    /\ goal_region_radius_ = 0
    /\ result_ = <<>>
    /\ result_cost_ = 0
    /\ node_list_ = <<>>
    /\ pc = "steer"
    /\ \E src \in SteerStates, dst \in SteerStates :
         /\ Len(src) = Len(dst)
         /\ algo = "IRRT" => Len(src) >= 2
         /\ start = src
         /\ goal = dst
         /\ node_list = IF algo = "RRT"
                        THEN << [state |-> src, parent |-> 0] >>
                        ELSE << [state |-> src, parent |-> 0, cost |-> 0] >>
         /\ it_rand_node = [state |-> dst, nan |-> FALSE]
    /\ goal_node_indexes = <<>>
    /\ sampling_cnt = 0
    /\ i = 0
    /\ drawn = 1
    /\ ret = "none"
    /\ calls = 1
    /\ goal_sampling_rate_ = DefaultRate
    /\ thrown = "none"
    /\ last_call = NoCall
    /\ sampler = "uniform"
    /\ it_new_node = NoNode
    /\ it_near_node_indexes = <<>>
    /\ mutations = <<>>
    /\ best_last_index = -1

\* new_node = generateSteerNode(node_list[nearest_node_index], rand_node, expand_dist_)
RRT_steer ==
    /\ algo = "RRT"
    /\ pc = "steer"
    /\ \E steered \in {RRT_generateSteerNode(node_list, 1, it_rand_node.state,
                                             expand_dist_)} :
         /\ steered.state # <<>>
         /\ it_new_node' = steered
    /\ pc' = "steered"
    /\ UNCHANGED <<cfgvars, cfgaux, solvevars, it_rand_node, sampler,
                   it_near_node_indexes, mutations>>

IRRT_steer ==
    /\ algo = "IRRT"
    /\ pc = "steer"
    /\ \E steered \in {IRRT_generateSteerNode(node_list, 1, it_rand_node.state,
                                              expand_dist_)} :
         /\ steered.state # <<>>
         /\ it_new_node' = steered
    /\ pc' = "steered"
    /\ UNCHANGED <<cfgvars, cfgaux, solvevars, it_rand_node, sampler,
                   it_near_node_indexes, mutations>>

NextSteer ==
    \/ RRT_steer
    \/ IRRT_steer

SpecSteer == InitSteer /\ [][NextSteer]_vars

----------------------------------------------------------------------------
(* Properties *)

IsIRRT == algo = "IRRT"

Returned == pc = "done"

\* the tree positions below the root
NonRoot(nl) == { k \in 1..Len(nl) : nl[k].parent # 0 }

\* following parent links from position idx reaches a root within n steps
RECURSIVE ReachesRoot(_, _, _)
ReachesRoot(nl, idx, n) ==
    \/ nl[idx].parent = 0
    \/ n > 0 /\ nl[idx].parent \in 1..Len(nl) /\ ReachesRoot(nl, nl[idx].parent, n - 1)

\* stored cost of position k against its parent's stored cost plus the edge
EdgeCost(nl, k) ==
    nl[nl[k].parent].cost + distanceFrom(nl[k].state, nl[nl[k].parent].state)

RECURSIVE PathLength(_, _)
PathLength(path, k) ==
    IF k >= Len(path) THEN 0
    ELSE distanceFrom(path[k], path[k + 1]) + PathLength(path, k + 1)

\* some node was re-parented to a node appended after it
Rewired(nl) == \E k \in 1..Len(nl) : nl[k].parent > k

\* some node's stored cost is out of date with respect to its parent
Stale(nl) == \E k \in NonRoot(nl) : nl[k].cost # EdgeCost(nl, k)

\* C1: after a successful solve every pair of consecutive states of the result
\* path, the last segment to the goal included, passes the constraint's
\* segment check
C1_PathFeasible ==
    (Returned /\ ret = TRUE) =>
        \A k \in 1..(Len(result_) - 1) :
            ConstraintCheckCollision(noentry, result_[k], result_[k + 1])

\* C2: when solve returns true the result path is non-empty, starts at start
\* and ends at goal
C2_PathEndpoints ==
    (Returned /\ ret = TRUE) =>
        /\ result_ # <<>>
        /\ result_[1] = start
        /\ result_[Len(result_)] = goal

\* a successful Informed RRT* solve in a tree that was rewired, whose path has
\* an intermediate node and whose best node's state already equals goal (the
\* state before the last is not the goal, so the goal was not pushed again)
C2_Witness ==
    /\ IsIRRT /\ Returned /\ ret = TRUE
    /\ Len(result_) >= 3
    /\ result_[Len(result_) - 1] # goal
    /\ Rewired(node_list)

\* C3: when solve returns false the result path is empty
C3_FailureClearsResult ==
    (Returned /\ ret = FALSE) => result_ = <<>>

\* C4: after an Informed RRT* solve returns, the retained tree and the result
\* hold nothing of an earlier call: the retained tree is the tree of this call
\* (or empty), and a failed call leaves no result
C4_ReentryResets ==
    (IsIRRT /\ Returned) =>
        /\ node_list_ \in {<<>>, node_list}
        /\ (ret = FALSE => result_ = <<>>)

\* C5: in Informed RRT* the parent links are acyclic: from every node the root
\* is reached in at most N steps, N the number of nodes
C5_Acyclic ==
    IsIRRT =>
        /\ \A k \in 1..Len(node_list) : ReachesRoot(node_list, k, Len(node_list))
        /\ \A k \in 1..Len(node_list_) : ReachesRoot(node_list_, k, Len(node_list_))

\* a tree of at least four nodes in which a rewire took place
C5_Witness ==
    IsIRRT /\ Len(node_list) >= 4 /\ Rewired(node_list)

\* C6: after every Informed RRT* solve every non-root node's cost is
\* its parent's cost plus the distance to the parent
C6_CostConsistent ==
    (IsIRRT /\ Returned) => \A k \in NonRoot(node_list) : node_list[k].cost = EdgeCost(node_list, k)

\* with a positive expand_dist: every node an iteration inserts or re-parents
\* has, right after that iteration, cost = parent's cost + distance to the
\* parent; and after solve every non-root node's cost is at least that sum
C6_CostConsistentWhenTouched ==
    /\ [][(IsIRRT /\ pc = "loop") =>
            \A k \in NonRoot(node_list') :
                (k > Len(node_list) \/ node_list'[k] # node_list[k])
                    => node_list'[k].cost = EdgeCost(node_list', k)]_vars
    /\ []((IsIRRT /\ Returned) =>
            \A k \in NonRoot(node_list) : node_list[k].cost >= EdgeCost(node_list, k))

\* a finished solve whose tree was rewired and holds an out-of-date cost
C6_Witness ==
    IsIRRT /\ Returned /\ Rewired(node_list) /\ Stale(node_list)

\* C7: on a successful Informed RRT* solve result_cost is the length of the
\* result path
C7_ResultCostIsPathLength ==
    (IsIRRT /\ Returned /\ ret = TRUE) => result_cost_ = PathLength(result_, 1)

\* C8: an iteration never raises the stored cost of a node already in the tree,
\* and strictly lowers the cost of every node whose parent it changes
C8_RewireDecreases ==
    [][(IsIRRT /\ pc = "loop") =>
         \A k \in 1..Len(node_list) :
            /\ node_list'[k].cost <= node_list[k].cost
            /\ node_list'[k].parent # node_list[k].parent
                  => node_list'[k].cost < node_list[k].cost]_vars

\* a node was re-parented and now costs less than the path through its
\* position's predecessor in the list
C8_Witness ==
    /\ IsIRRT
    /\ \E k \in 2..Len(node_list) :
          /\ node_list[k].parent > k
          /\ node_list[k].cost < node_list[node_list[k].parent].cost
                                 + 2 * distanceFrom(node_list[k].state,
                                                    node_list[node_list[k].parent].state)

\* C9: an RRT solve with a budget of at least one draws at most
\* max_sampling_num samples, rejected ones included, and has returned once it
\* has drawn that many
C9_BudgetBoundsDraws ==
    (algo = "RRT" /\ max_sampling_num_ >= 1) =>
        /\ drawn <= max_sampling_num_
        /\ drawn = max_sampling_num_ => Returned

\* C10: Informed RRT* runs exactly max_sampling_num iterations: every pass of
\* the loop advances the loop counter, skipped ones included, the counter never
\* exceeds the budget, solve has not returned while the loop runs, and when it
\* has returned the counter equals the budget
C10_ExactIterations ==
    IsIRRT =>
        /\ drawn = i
        /\ i <= max_sampling_num_
        /\ pc = "loop" => ret = "none"
        /\ Returned => i = max_sampling_num_

\* a finished run in which a node entered the goal region before the last
\* iteration and some iteration added no node
C10_Witness ==
    /\ IsIRRT /\ Returned
    /\ goal_node_indexes # <<>>
    /\ goal_node_indexes[1] < Len(node_list)
    /\ Len(node_list) < 1 + max_sampling_num_

\* C11: a constructor or setGoalSamplingRate call with a rate outside [0,1]
\* leaves with InvalidArgument, a rejected setter call leaves the stored rate
\* as it was, and a rate inside [0,1] (0 and 1 included) is accepted and stored
C11_RateValidation ==
    last_call.op \in {"ctor", "setGoalSamplingRate"} =>
        IF 0 <= last_call.arg /\ last_call.arg <= 10
        THEN thrown = "none" /\ goal_sampling_rate_ = last_call.arg
        ELSE /\ thrown = "invalid_argument"
             /\ last_call.op = "setGoalSamplingRate"
                   => goal_sampling_rate_ = last_call.prev

\* C12: a planner never holds a non-positive expand_dist, R or
\* goal_region_radius: constructing with one or setting one is rejected with
\* InvalidArgument, so no solve runs with one
C12_InvalidConfigRejected ==
    /\ pc # "unbuilt" =>
          /\ expand_dist_ > 0
          /\ IsIRRT => (R_ > 0 /\ goal_region_radius_ > 0)
    /\ (last_call.op \in {"setExpandDist", "setR", "setGoalRegionRadius"}
          /\ last_call.arg <= 0) => thrown = "invalid_argument"

\* the positions of the nodes closer than expand_dist_ to the goal
Candidates == { k \in 1..Len(node_list) :
                  DistLt(goal, node_list[k].state, expand_dist_) }

\* C13: when Informed RRT* has returned, it returned true exactly when some node
\* of the tree, the root included, is closer than expand_dist to the goal; the
\* node the path is rebuilt from is then a node of least stored cost among
\* exactly those nodes, the one of lowest index among equals, and the path ends
\* with that node's state followed by the goal.
C13_BestNode ==
    (IsIRRT /\ Returned) =>
        /\ (ret = TRUE) <=> (Candidates # {})
        /\ Candidates = {} => best_last_index = -1
        /\ Candidates # {} =>
            /\ best_last_index \in Candidates
            /\ \A k \in Candidates :
                 \/ node_list[best_last_index].cost < node_list[k].cost
                 \/ /\ node_list[best_last_index].cost = node_list[k].cost
                    /\ best_last_index <= k
            /\ LET n == Len(result_)
                   last == IF node_list[best_last_index].state # goal THEN n - 1 ELSE n
               IN  /\ last >= 1
                   /\ result_[last] = node_list[best_last_index].state
                   /\ result_[n] = goal

\* a successful return with a node in the goal-region set that is not closer
\* than expand_dist to the goal
C13_Witness ==
    /\ IsIRRT /\ Returned /\ ret = TRUE
    /\ \E j \in 1..Len(goal_node_indexes) : goal_node_indexes[j] \notin Candidates

\* the state s is at distance d from a, on the segment from a toward b
OnSegmentAt(a, b, s, d) ==
    /\ D2(a, s) = Sq(d)
    /\ \A j \in 1..Len(a), k \in 1..Len(a) :
         (s[j] - a[j]) * (b[k] - a[k]) = (s[k] - a[k]) * (b[j] - a[j])
    /\ \A k \in 1..Len(a) : (s[k] - a[k]) * (b[k] - a[k]) >= 0

\* C14: in a space of any dimension from 1 up, a steered state is expand_dist
\* away from the source on the segment toward the target when the target is at
\* least expand_dist away, targets in the negative direction of an axis
\* included, and equals the target when it is closer than expand_dist.
C14_SteeringExact ==
    pc = "steered" =>
        LET src == node_list[1].state
            dst == it_rand_node.state
        IN  IF DistLt(src, dst, expand_dist_)
            THEN it_new_node.state = dst
            ELSE OnSegmentAt(src, dst, it_new_node.state, expand_dist_)

\* the neighbours of the candidate whose segment to it is admissible
FeasibleNear(cand, nl, near) ==
    { n \in { near[k] : k \in 1..Len(near) } :
        ConstraintCheckCollision(noentry, cand.state, nl[n].state) }

\* the cost of the candidate when it hangs below node n
CostVia(cand, nl, n) == nl[n].cost + distanceFrom(nl[n].state, cand.state)

\* C15: choose_parent gives the candidate a feasible neighbour of least
\* cost-through as its parent, with that cost, when a neighbour is feasible,
\* and leaves the parent and cost that steering gave it otherwise; the
\* candidate's state is not touched and an infeasible neighbour never becomes
\* the parent.
C15_ChooseParent ==
    [][ (pc = "near" /\ pc' = "chosen") =>
          LET feasible == FeasibleNear(it_new_node, node_list, it_near_node_indexes)
          IN  /\ it_new_node'.state = it_new_node.state
              /\ IF feasible = {}
                 THEN it_new_node' = it_new_node
                 ELSE /\ it_new_node'.parent \in feasible
                      /\ it_new_node'.cost
                           = CostVia(it_new_node, node_list, it_new_node'.parent)
                      /\ \A n \in feasible :
                           it_new_node'.cost <= CostVia(it_new_node, node_list, n) ]_vars

\* choose_parent has run with an infeasible neighbour that would have been
\* cheaper than the parent it chose
C15_Witness ==
    /\ pc = "chosen"
    /\ FeasibleNear(it_new_node, node_list, it_near_node_indexes) # {}
    /\ \E k \in 1..Len(it_near_node_indexes) :
         /\ it_near_node_indexes[k]
              \notin FeasibleNear(it_new_node, node_list, it_near_node_indexes)
         /\ CostVia(it_new_node, node_list, it_near_node_indexes[k]) < it_new_node.cost

\* C16: a rewire step leaves the length and order of the tree, every state, the
\* appended node and every node outside near_idx as they were; a node of
\* near_idx gets the appended node as parent and the cost through it exactly
\* when that cost is strictly lower than its own and the segment is admissible,
\* and stays as it was otherwise.
C16_RewireFrame ==
    [][ (pc = "appended" /\ pc' = "loop") =>
          LET n == Len(node_list)
              new_node == node_list[n]
              near == { it_near_node_indexes[k] : k \in 1..Len(it_near_node_indexes) }
          IN  /\ Len(node_list') = n
              /\ node_list'[n] = new_node
              /\ \A k \in 1..n :
                   /\ node_list'[k].state = node_list[k].state
                   /\ IF k \in near /\ RewireTo(noentry, new_node, node_list[k])
                      THEN /\ node_list'[k].parent = n
                           /\ node_list'[k].cost
                                = new_node.cost + distanceFrom(node_list[k].state,
                                                               new_node.state)
                      ELSE node_list'[k] = node_list[k] ]_vars

\* a rewire step has just re-parented a node of near_idx while the tree holds an
\* older node outside near_idx
C16_Witness ==
    /\ pc = "loop"
    /\ mutations = <<"choose_parent", "append", "rewire">>
    /\ LET n == Len(node_list)
           near == { it_near_node_indexes[k] : k \in 1..Len(it_near_node_indexes) }
       IN  /\ \E k \in near : node_list[k].parent = n
           /\ (1..(n - 1)) \ near # {}

\* C17: while a solve runs and after it, the tree of either planner has exactly
\* one node without a parent: the node at index 0, which holds the start state
\* and, in Informed RRT*, the cost 0; so no rewire gives the root a parent or
\* another cost.
C17_SingleRoot ==
    node_list # <<>> =>
        /\ node_list[1].parent = 0
        /\ node_list[1].state = start
        /\ IsIRRT => node_list[1].cost = 0
        /\ \A k \in 2..Len(node_list) : node_list[k].parent # 0

\* the positions of the nodes closer than goal_region_radius_ to the goal
InGoalRegion == { k \in 1..Len(node_list) :
                    DistLt(node_list[k].state, goal, goal_region_radius_) }

\* an index once in the goal-region list stays in it, at its place
GoalRegionGrows ==
    [][ pc = "appended" =>
          /\ Len(goal_node_indexes') >= Len(goal_node_indexes)
          /\ \A j \in 1..Len(goal_node_indexes) :
               goal_node_indexes'[j] = goal_node_indexes[j] ]_vars

\* C18: at the end of every Informed RRT* iteration the goal-region set holds
\* exactly the indices of the nodes within goal_region_radius of the goal, the
\* root included.  (That the set only grows is GoalRegionGrows.)
C18_GoalRegionExact ==
    (IsIRRT /\ pc = "loop" /\ i > 0) =>
        { goal_node_indexes[j] : j \in 1..Len(goal_node_indexes) } = InGoalRegion

\* the set holds exactly the nodes of the goal region other than the root
C18_AllButRoot ==
    (IsIRRT /\ pc = "loop" /\ i > 0) =>
        { goal_node_indexes[j] : j \in 1..Len(goal_node_indexes) } = InGoalRegion \ {1}

\* the tree operations of an admitting iteration, in the order of the code
IterationOrder == <<"choose_parent", "append", "rewire">>

\* C19: in every Informed RRT* iteration that admits a new node the tree
\* mutations are issued in the order append, choose_parent, rewire.
C19_AppendChooseRewire ==
    (IsIRRT /\ pc = "loop" /\ mutations # <<>>) =>
        mutations = <<"append", "choose_parent", "rewire">>

\* C19 amended: an admitting iteration looks up the neighbours of the candidate
\* in the tree that does not hold it yet, runs choose_parent on the candidate
\* while it is still outside the tree, appends it, and then rewires over that
\* same neighbour index set.
C19_ChooseAppendRewire ==
    IsIRRT =>
        /\ Len(mutations) <= 3
        /\ mutations = SubSeq(IterationOrder, 1, Len(mutations))
        /\ pc = "chosen" => mutations = <<"choose_parent">>
        /\ pc = "appended" =>
             /\ mutations = <<"choose_parent", "append">>
             /\ node_list[Len(node_list)] = it_new_node
        /\ (pc = "loop" /\ mutations # <<>>) =>
             /\ mutations = IterationOrder
             /\ it_near_node_indexes
                  = findNearNodes(it_new_node,
                                  SubSeq(node_list, 1, Len(node_list) - 1), R_)

\* an admitting iteration has ended whose neighbour set was not empty and whose
\* candidate got another parent than the one steering gave it
C19_Witness ==
    /\ IsIRRT /\ pc = "loop"
    /\ mutations = IterationOrder
    /\ it_near_node_indexes # <<>>
    /\ it_new_node.parent
         # IRRT_getNearestNodeIndex(it_rand_node.state,
                                    SubSeq(node_list, 1, Len(node_list) - 1))

\* a sample has been drawn and the tree is still the one it was drawn for
SampleDrawn == IsIRRT /\ sampler # "none" /\ mutations = <<>>

\* C20: a sample of the informed sampler, which is used only while a
\* goal-region node exists, satisfies dist(s, start) + dist(s, goal) <= c_best,
\* c_best being the least cost over the goal-region set; while there is no
\* goal-region node a sample that is not the goal is drawn uniformly.
C20_InformedContainment ==
    SampleDrawn =>
        /\ sampler = "informed" =>
             /\ goal_node_indexes # <<>>
             /\ ~it_rand_node.nan
             /\ SumLeq(D2(it_rand_node.state, start), D2(it_rand_node.state, goal),
                       BestCost(node_list, goal_node_indexes))
        /\ sampler = "uniform" => goal_node_indexes = <<>>

\* the containment holds for every informed sample drawn with c_best >= c_min
C20_ContainedUnlessNaN ==
    (SampleDrawn /\ sampler = "informed" /\ ~it_rand_node.nan) =>
        /\ ~InformedIsNaN(start, goal, BestCost(node_list, goal_node_indexes))
        /\ SumLeq(D2(it_rand_node.state, start), D2(it_rand_node.state, goal),
                  BestCost(node_list, goal_node_indexes))

\* an informed sample off the segment from start to goal
C20_InformedOffAxis ==
    /\ SampleDrawn /\ sampler = "informed" /\ ~it_rand_node.nan
    /\ ~SumLeq(D2(it_rand_node.state, start), D2(it_rand_node.state, goal),
               distanceFrom(start, goal))

\* the node steering gave to the current iteration, before choose_parent
SteeredNode ==
    IRRT_generateSteerNode(node_list,
                           IRRT_getNearestNodeIndex(it_rand_node.state, node_list),
                           it_rand_node.state, expand_dist_)

\* C22: after choose_parent the candidate's cost is at most the cost steering
\* gave it (the nearest node's cost plus the step), whether or not the nearest
\* node is in the neighbour index set.
C22_ChooseNeverWorse ==
    (IsIRRT /\ pc = "chosen") => it_new_node.cost <= SteeredNode.cost

\* choose_parent has lowered the cost of a candidate
C22_ChooseImproved ==
    IsIRRT /\ pc = "chosen" /\ it_new_node.cost < SteeredNode.cost

\* choose_parent has run on a candidate whose steering parent is not in the
\* neighbour index set
C22_NearestNotNear ==
    /\ IsIRRT /\ pc = "chosen"
    /\ \A k \in 1..Len(it_near_node_indexes) :
         it_near_node_indexes[k] # SteeredNode.parent

\* the length of the parent-link path from position k to the root; fuel bounds
\* the walk
\* neither end of the parent link of node k has a NaN coordinate; the distance
\* along a link with such an end is NaN and no comparison with it holds
FiniteEdge(nl, k) == ~IsNaN(nl[k].state) /\ ~IsNaN(nl[nl[k].parent].state)

RECURSIVE LengthToRoot(_, _, _)
LengthToRoot(nl, k, fuel) ==
    IF nl[k].parent = 0 \/ fuel = 0 THEN 0
    ELSE distanceFrom(nl[k].state, nl[nl[k].parent].state)
         + LengthToRoot(nl, nl[k].parent, fuel - 1)

\* C21: in every state of an Informed RRT* run with expand_dist > 0 every
\* non-root node's cost is at least its parent's cost plus the distance to the
\* parent; so it is at least the length of its parent-link path to the root,
\* and no node costs less than its parent.
C21_CostAtLeastEdge ==
    (IsIRRT /\ expand_dist_ > 0) =>
        \A k \in NonRoot(node_list) :
            /\ FiniteEdge(node_list, k)
            /\ node_list[k].cost >= EdgeCost(node_list, k)
            /\ node_list[k].cost >= LengthToRoot(node_list, k, Len(node_list))
            /\ node_list[k].cost >= node_list[node_list[k].parent].cost

\* the inequalities hold along every parent link without a NaN end
C21_FiniteLinks ==
    (IsIRRT /\ expand_dist_ > 0) =>
        \A k \in NonRoot(node_list) :
            FiniteEdge(node_list, k) =>
                /\ node_list[k].cost >= EdgeCost(node_list, k)
                /\ node_list[k].cost >= LengthToRoot(node_list, k, Len(node_list))
                /\ node_list[k].cost >= node_list[node_list[k].parent].cost

\* inside a run with expand_dist > 0, a tree in which a rewire took place and
\* a node's cost is above its parent's cost plus the distance to the parent
C21_Witness ==
    /\ IsIRRT /\ expand_dist_ > 0 /\ pc = "loop"
    /\ Rewired(node_list)
    /\ \E k \in NonRoot(node_list) : node_list[k].cost > EdgeCost(node_list, k)

====
